---- MODULE Spec2Model ----
(***************************************************************************)
(* Model of the TAP parser of kyua-testers/tap_parser.c:                   *)
(*   regex_match_too_long, kyua_tap_try_parse_plan and kyua_tap_parse.     *)
(* A line is a sequence of one-character strings; offsets of regmatch_t    *)
(* are 0-based as in <regex.h>, with -1 for a group that did not match.    *)
(***************************************************************************)
EXTENDS Integers, Sequences, FiniteSets, TLC

(***************************************************************************)
(* Bounds of the model.                                                    *)
(***************************************************************************)
\* Longest input stream, in lines.
MaxLines == 3
\* Width in bits of the platform's long; LONG_MAX is 2^(LongBits-1) - 1.
LongBits == 5

(***************************************************************************)
(* Program constants.                                                      *)
(***************************************************************************)
\* char buffer[64] of regex_match_too_long.
NumBufSize == 64
\* Longest description attached to a plan.
MaxPlanDescription == 1024
\* summary->first_index before any plan is accepted.
NoIndex == -1

RECURSIVE Pow2(_)
Pow2(n) == IF n = 0 THEN 1 ELSE 2 * Pow2(n - 1)

LONG_MAX == Pow2(LongBits - 1) - 1

NULL == "NULL"

\* The messages stored in summary->parse_error.
ErrTwoPlans == "Output includes two test plans"
ErrTooLong == "Plan line too long"
ErrOutOfRange == "Plan line includes out of range numbers"
ErrDescTooLong == "Description attached to plan too long"
ErrNoPlan == "No plan found in TAP output"
ErrReversed == "Test plan is reversed"
ErrDiffers == "Reported plan differs from actual executed tests"

(***************************************************************************)
(* Characters and C string functions.                                      *)
(***************************************************************************)
Digits == <<"0", "1", "2", "3", "4", "5", "6", "7", "8", "9">>

IsDigit(c) == \E i \in 1..10 : Digits[i] = c

DigitVal(c) == (CHOOSE i \in 1..10 : Digits[i] = c) - 1

IsBlank(c) == c \in {" ", "\t"}

UpperCase == <<"A", "B", "C", "D", "E", "F", "G", "H", "I", "J", "K", "L", "M",
               "N", "O", "P", "Q", "R", "S", "T", "U", "V", "W", "X", "Y", "Z">>
LowerCase == <<"a", "b", "c", "d", "e", "f", "g", "h", "i", "j", "k", "l", "m",
               "n", "o", "p", "q", "r", "s", "t", "u", "v", "w", "x", "y", "z">>

tolower(c) ==
    IF \E i \in 1..26 : UpperCase[i] = c
    THEN LowerCase[CHOOSE i \in 1..26 : UpperCase[i] = c]
    ELSE c

\* The C string starting at offset so of line (line + so).
StrFrom(line, so) == SubSeq(line, so + 1, Len(line))

\* strstr(hay, needle) != NULL
strstr(hay, needle) ==
    \E i \in 0..(Len(hay) - Len(needle)) :
        SubSeq(hay, i + 1, i + Len(needle)) = needle

\* strstr(hay, needle) == hay
StartsWith(hay, needle) ==
    /\ Len(hay) >= Len(needle)
    /\ SubSeq(hay, 1, Len(needle)) = needle

\* strcasestr(hay, needle) != NULL
strcasestr(hay, needle) ==
    strstr([i \in 1..Len(hay) |-> tolower(hay[i])],
           [i \in 1..Len(needle) |-> tolower(needle[i])])

\* Offset just after the longest run of characters of the class starting at
\* offset so.
RECURSIVE DigitsEnd(_, _)
DigitsEnd(line, so) ==
    IF so < Len(line) /\ IsDigit(line[so + 1])
    THEN DigitsEnd(line, so + 1)
    ELSE so

RECURSIVE BlanksEnd(_, _)
BlanksEnd(line, so) ==
    IF so < Len(line) /\ IsBlank(line[so + 1])
    THEN BlanksEnd(line, so + 1)
    ELSE so

RECURSIVE NoHashEnd(_, _)
NoHashEnd(line, so) ==
    IF so < Len(line) /\ line[so + 1] # "#"
    THEN NoHashEnd(line, so + 1)
    ELSE so

\* strtol(buffer, &endptr, 10) of a string of digits: the value, or LONG_MAX
\* with errno == ERANGE when the value does not fit a long.
RECURSIVE StrtolFrom(_, _, _)
StrtolFrom(buffer, i, acc) ==
    IF i > Len(buffer) THEN [val |-> acc, erange |-> FALSE]
    ELSE IF acc > (LONG_MAX - DigitVal(buffer[i])) \div 10
         THEN [val |-> LONG_MAX, erange |-> TRUE]
         ELSE StrtolFrom(buffer, i + 1, acc * 10 + DigitVal(buffer[i]))

strtol(buffer) == StrtolFrom(buffer, 1, 0)

(***************************************************************************)
(* The three patterns, matched as regexec does (POSIX leftmost-longest).   *)
(***************************************************************************)
NoMatch == [rm_so |-> -1, rm_eo |-> -1]
Match(so, eo) == [rm_so |-> so, rm_eo |-> eo]
IsSet(m) == m.rm_so # -1 /\ m.rm_eo # -1

\* "^([0-9]+)\\.\\.([0-9]+)(.*#.*)?$"
PlanRegexec(line) ==
    LET e1 == DigitsEnd(line, 0)
        s2 == e1 + 2
        e2 == DigitsEnd(line, s2)
        n == Len(line)
        ok == /\ e1 > 0
              /\ n >= s2
              /\ line[e1 + 1] = "." /\ line[e1 + 2] = "."
              /\ e2 > s2
              /\ (e2 = n \/ strstr(StrFrom(line, e2), <<"#">>))
    IN  IF ok
        THEN [code |-> 0,
              matches |-> <<Match(0, e1), Match(s2, e2),
                            IF e2 = n THEN NoMatch ELSE Match(e2, n)>>]
        ELSE [code |-> 1, matches |-> <<NoMatch, NoMatch, NoMatch>>]

\* The offset if the result patterns did not require the "ok".
OkEnd_Optional(line) ==
    IF StartsWith(line, <<"n", "o", "t", " ", "o", "k">>) THEN 6
    ELSE IF StartsWith(line, <<"o", "k">>) THEN 2
    ELSE 0

\* Offset just after the optional "not " and the "ok" a result line starts
\* with, or -1 when the line starts with neither.
OkEnd(line) ==
    IF StartsWith(line, <<"n", "o", "t", " ", "o", "k">>) THEN 6
    ELSE IF StartsWith(line, <<"o", "k">>) THEN 2
    ELSE -1

NotGroup(line) == IF OkEnd(line) = 6 THEN Match(0, 4) ELSE NoMatch

\* "^(not )?ok[ \t]+[0-9]+[ \t]+([^#]+)?$"
SimpleTestRegexec(line) ==
    LET o == OkEnd(line)
        b1 == BlanksEnd(line, o)
        d == DigitsEnd(line, b1)
        b2 == BlanksEnd(line, d)
        n == Len(line)
        ok == /\ o # -1
              /\ b1 > o
              /\ d > b1
              /\ b2 > d
              /\ NoHashEnd(line, b2) = n
    IN  IF ok
        THEN [code |-> 0,
              matches |-> <<NotGroup(line),
                            IF b2 = n THEN NoMatch ELSE Match(b2, n)>>]
        ELSE [code |-> 1, matches |-> <<NoMatch, NoMatch>>]

\* "^(not )?ok[ \t]*([0-9]+)?([^#]+)?(.*)?$"
TestRegexec(line) ==
    LET o == OkEnd(line)
        b == BlanksEnd(line, o)
        d == DigitsEnd(line, b)
        h == NoHashEnd(line, d)
        n == Len(line)
    IN  IF o # -1
        THEN [code |-> 0,
              matches |-> <<NotGroup(line),
                            IF d > b THEN Match(b, d) ELSE NoMatch,
                            IF h > d THEN Match(d, h) ELSE NoMatch,
                            Match(h, n)>>]
        ELSE [code |-> 1, matches |-> <<NoMatch, NoMatch, NoMatch, NoMatch>>]

(***************************************************************************)
(* regex_match_too_long: extracts a regex match as a long.                 *)
(***************************************************************************)
\* regex_match_too_long if only errno == ERANGE rejected a number, so that
\* LONG_MAX itself were accepted.
regex_match_too_long_AcceptsMax(line, match) ==
    LET length == match.rm_eo - match.rm_so
        buffer == SubSeq(line, match.rm_so + 1, match.rm_eo)
        r == strtol(buffer)
        tmp == r.val
    IN  IF length > NumBufSize - 1
        THEN [error |-> ErrTooLong, output |-> 0]
        ELSE IF r.erange
             THEN [error |-> ErrOutOfRange, output |-> 0]
             ELSE [error |-> NULL, output |-> tmp]

\* regex_match_too_long without the range check of line 153.
regex_match_too_long_NoRangeCheck(line, match) ==
    LET length == match.rm_eo - match.rm_so
        buffer == SubSeq(line, match.rm_so + 1, match.rm_eo)
        r == strtol(buffer)
        tmp == r.val
    IN  IF length > NumBufSize - 1
        THEN [error |-> ErrTooLong, output |-> 0]
        ELSE [error |-> NULL, output |-> tmp]

regex_match_too_long(line, match) ==
    LET length == match.rm_eo - match.rm_so
        buffer == SubSeq(line, match.rm_so + 1, match.rm_eo)
        r == strtol(buffer)
        tmp == r.val
    IN  IF length > NumBufSize - 1
        THEN [error |-> ErrTooLong, output |-> 0]
        ELSE IF r.erange \/ tmp = LONG_MAX
             THEN [error |-> ErrOutOfRange, output |-> 0]
             ELSE [error |-> NULL, output |-> tmp]

(***************************************************************************)
(* A pattern object (regex_t): whether regcomp has compiled it, how many   *)
(* times regfree has been called on it, and whether regex_error_new has    *)
(* stored it in an error object, which releases it when the error is       *)
(* freed.                                                                  *)
(***************************************************************************)
PregNew == [compiled |-> FALSE, regfree |-> 0, owned |-> FALSE]

\* regcomp(&preg, ...), which succeeds or fails.
Regcomp(ok) == [PregNew EXCEPT !.compiled = ok]

\* regfree(&preg)
Regfree(preg) == [preg EXCEPT !.regfree = @ + 1]

\* regex_error_new(code, &preg, ...): the error takes ownership.
ErrorOwns(preg) == [preg EXCEPT !.owned = TRUE]

\* regfree of an object regcomp has not compiled, or of one already freed,
\* has no defined behaviour.
RegfreeUndefined(preg) == ~preg.compiled \/ preg.regfree >= 1

\* How many times the object is released, counting the error that owns it.
Releases(preg) == preg.regfree + (IF preg.owned THEN 1 ELSE 0)

\* Lines 183-196: the pattern object of one call of kyua_tap_try_parse_plan
\* when it reaches the label end.  matched: regexec has returned 0.
PlanPregAtEnd(engine, matched) ==
    IF engine = "regcomp" THEN ErrorOwns(Regcomp(FALSE))
    ELSE IF engine = "regexec" THEN ErrorOwns(Regcomp(TRUE))
    ELSE IF matched THEN Regfree(Regcomp(TRUE))
    ELSE Regcomp(TRUE)

\* kyua_tap_try_parse_plan without the check of line 198: a second plan
\* replaces the first.
kyua_tap_try_parse_plan_Replaces(line, summary, engine) ==
    LET r == PlanRegexec(line)
        matches == r.matches
        n1 == regex_match_too_long(line, matches[1])
        n2 == regex_match_too_long(line, matches[2])
        s215 == [summary EXCEPT !.skipped_all = FALSE]
        m3set == matches[3].rm_so # -1 /\ matches[3].rm_eo # -1
        skip == m3set /\ strstr(StrFrom(line, matches[3].rm_so),
                                <<"S", "K", "I", "P">>)
        s228 == IF skip
                THEN [s215 EXCEPT
                        !.parse_error =
                            IF summary.ok_count # 0 \/ summary.not_ok_count # 0
                               \/ summary.bail_out
                            THEN ErrNoPlan ELSE summary.parse_error,
                        !.skipped_all = TRUE]
                ELSE s215
    IN  IF engine = "regcomp"
        THEN [summary |-> summary, error |-> "regex: regcomp failed"]
        ELSE IF engine = "regexec"
        THEN [summary |-> summary, error |-> "regex: regexec failed"]
        ELSE IF r.code # 0
        THEN [summary |-> summary, error |-> "ok"]
        ELSE [error |-> "ok",
              summary |->
                IF n1.error # NULL
                THEN [summary EXCEPT !.parse_error = n1.error]
                ELSE IF n2.error # NULL
                THEN [summary EXCEPT !.parse_error = n2.error]
                ELSE IF m3set /\ matches[3].rm_eo - matches[3].rm_so
                                    > MaxPlanDescription
                THEN [s215 EXCEPT !.parse_error = ErrDescTooLong]
                ELSE IF ~s228.skipped_all /\ n2.output < n1.output
                THEN [s228 EXCEPT !.parse_error = ErrReversed]
                ELSE [s228 EXCEPT !.first_index = n1.output,
                                  !.last_index = n2.output]]

(***************************************************************************)
(* kyua_tap_try_parse_plan: attempts to parse a TAP plan line.  engine is  *)
(* what the pattern engine does in this call: "ok", or the call that       *)
(* fails, "regcomp" or "regexec".  The result is the summary as the call   *)
(* leaves it and the error it returns.                                     *)
(***************************************************************************)
EngineOk == "ok"
ErrorOk == "ok"
ErrorRegcomp == "regex: regcomp failed"
ErrorRegexec == "regex: regexec failed"
ErrorFdopen == "libc: fdopen(3) failed"

\* Lines 222-229 without the test of bail_out.
PlanDirective_IgnoresBailOut(line, summary, m3) ==
    IF IsSet(m3) /\ strstr(StrFrom(line, m3.rm_so), <<"S", "K", "I", "P">>)
    THEN [summary EXCEPT
            !.parse_error =
                IF summary.ok_count # 0 \/ summary.not_ok_count # 0
                THEN ErrNoPlan ELSE summary.parse_error,
            !.skipped_all = TRUE]
    ELSE summary

PlanDirective(line, summary, m3) ==
    IF IsSet(m3) /\ strstr(StrFrom(line, m3.rm_so), <<"S", "K", "I", "P">>)
    THEN [summary EXCEPT
            !.parse_error =
                IF summary.ok_count # 0 \/ summary.not_ok_count # 0
                   \/ summary.bail_out
                THEN ErrNoPlan ELSE summary.parse_error,
            !.skipped_all = TRUE]
    ELSE summary

PlanCommit(summary, first_index, last_index) ==
    IF ~summary.skipped_all /\ last_index < first_index
    THEN [summary EXCEPT !.parse_error = ErrReversed]
    ELSE [summary EXCEPT !.first_index = first_index,
                         !.last_index = last_index]

kyua_tap_try_parse_plan(line, summary, engine) ==
    LET r == PlanRegexec(line)
        matches == r.matches
        n1 == regex_match_too_long(line, matches[1])
        n2 == regex_match_too_long(line, matches[2])
        s215 == [summary EXCEPT !.skipped_all = FALSE]
    IN  IF engine = "regcomp"
        THEN [summary |-> summary, error |-> ErrorRegcomp]
        ELSE IF engine = "regexec"
        THEN [summary |-> summary, error |-> ErrorRegexec]
        ELSE IF r.code # 0
        THEN [summary |-> summary, error |-> ErrorOk]
        ELSE [error |-> ErrorOk,
              summary |->
                IF summary.first_index # NoIndex
                THEN [summary EXCEPT !.parse_error = ErrTwoPlans]
                ELSE IF n1.error # NULL
                THEN [summary EXCEPT !.parse_error = n1.error]
                ELSE IF n2.error # NULL
                THEN [summary EXCEPT !.parse_error = n2.error]
                ELSE IF IsSet(matches[3])
                        /\ matches[3].rm_eo - matches[3].rm_so
                                > MaxPlanDescription
                THEN [s215 EXCEPT !.parse_error = ErrDescTooLong]
                ELSE PlanCommit(PlanDirective(line, s215, matches[3]),
                                n1.output, n2.output)]

(***************************************************************************)
(* kyua_tap_parse: the state of one call.                                  *)
(***************************************************************************)
VARIABLES
    pc,        \* position in kyua_tap_parse
    input,     \* lines of the input stream not read yet
    consumed,  \* lines kyua_text_fgets_no_newline has returned, in order
    output,    \* lines printed to the output stream, in order
    summary,   \* *summary
    error,     \* the local variable error
    fault,     \* the library call that has failed in this run, if any
    pregs,     \* the pattern objects: preg of the last call of
               \* kyua_tap_try_parse_plan, simple_test_reg and test_reg
    closed     \* how many times the input descriptor or stream was closed

vars == <<pc, input, consumed, output, summary, error, fault, pregs, closed>>

\* kyua_tap_summary_new: no plan, no results.
kyua_tap_summary_new ==
    [parse_error |-> NULL, bail_out |-> FALSE, skipped_all |-> FALSE,
     first_index |-> NoIndex, last_index |-> NoIndex,
     ok_count |-> 0, not_ok_count |-> 0]

\* What the caller's summary may hold before the call.
StaleSummary ==
    [parse_error |-> ErrDiffers, bail_out |-> TRUE, skipped_all |-> TRUE,
     first_index |-> 1, last_index |-> 1, ok_count |-> 1, not_ok_count |-> 1]

\* The decimal digits of a natural number.
RECURSIVE Dec(_)
Dec(n) == IF n < 10 THEN <<Digits[n + 1]>>
          ELSE Dec(n \div 10) \o <<Digits[(n % 10) + 1]>>

\* Lines of TAP output.
LinePlan1 == <<"1", ".", ".", "1">>
LinePlan2 == <<"1", ".", ".", "2">>
LineReversed == <<"2", ".", ".", "1">>
LineSkipNone == <<"1", ".", ".", "0", " ", "#", " ", "S", "K", "I", "P">>
LineSkipTwo == <<"1", ".", ".", "2", " ", "#", " ", "S", "K", "I", "P">>
LineOk == <<"o", "k", " ", "1">>
LineOkSimple == <<"o", "k", " ", "1", " ", "x">>
LineNotOkSimple == <<"n", "o", "t", " ", "o", "k", " ", "1", " ", "x">>
LineNotOk == <<"n", "o", "t", " ", "o", "k", " ", "1">>
LineNotOkTodo == <<"n", "o", "t", " ", "o", "k", " ", "1", " ", "#", " ", "T", "o", "d", "o">>
LineNotOkSkip == <<"n", "o", "t", " ", "o", "k", " ", "1", " ", "#", " ", "s", "k", "i", "p">>
LineNotOkHash == <<"n", "o", "t", " ", "o", "k", " ", "1", " ", "#", " ", "x">>
LineBailOut == <<"B", "a", "i", "l", " ", "o", "u", "t", "!", " ", "x">>
LineComment == <<"#", " ", "c">>
LinePlanMax == <<"1", ".", ".">> \o Dec(LONG_MAX)
LineEmpty == <<>>

\* The lines the input streams are made of.  The other lines above are kept
\* for streams about comments, unmarked failures and out of range plans.
Lines == {LinePlan1, LinePlan2, LineReversed, LineSkipTwo,
          LineOk, LineOkSimple,
          LineNotOkTodo, LineNotOkSkip, LineNotOkHash,
          LineBailOut, LineEmpty}

RECURSIVE StreamsOfLen(_)
StreamsOfLen(n) ==
    IF n = 0 THEN {<<>>}
    ELSE {<<l>> \o s : l \in Lines, s \in StreamsOfLen(n - 1)}

Streams == UNION {StreamsOfLen(n) : n \in 0..MaxLines}

\* What the pattern engine may do in one iteration of the line loop: work, or
\* fail in one of its four calls.
Engines == {EngineOk, "regcomp", "regexec", "simple_regexec", "test_regexec"}

NoFault == "none"

NoPregs == [plan |-> PregNew, simple |-> PregNew, test |-> PregNew]

Init ==
    /\ pc = "start"
    /\ input \in Streams
    /\ consumed = <<>>
    /\ output = <<>>
    /\ summary \in {kyua_tap_summary_new, StaleSummary}
    /\ error = "unset"
    /\ fault = NoFault
    /\ pregs = NoPregs
    /\ closed = 0

(***************************************************************************)
(* Lines 263-290: fdopen, kyua_tap_summary_new and the two regcomp calls.  *)
(***************************************************************************)
FdopenFails ==
    /\ pc = "start"
    /\ pc' = "done"
    /\ error' = ErrorFdopen
    /\ fault' = "fdopen"
    /\ closed' = closed + 1
    /\ UNCHANGED <<input, consumed, output, summary, pregs>>

Fdopen ==
    /\ pc = "start"
    /\ pc' = "regcomp_simple"
    /\ summary' = kyua_tap_summary_new
    /\ UNCHANGED <<input, consumed, output, error, fault, pregs, closed>>

RegcompSimpleFails ==
    /\ pc = "regcomp_simple"
    /\ pc' = "end2"
    /\ error' = ErrorRegcomp
    /\ fault' = "regcomp_simple"
    /\ pregs' = [pregs EXCEPT !.simple = ErrorOwns(Regcomp(FALSE))]
    /\ UNCHANGED <<input, consumed, output, summary, closed>>

RegcompSimple ==
    /\ pc = "regcomp_simple"
    /\ pc' = "regcomp_test"
    /\ pregs' = [pregs EXCEPT !.simple = Regcomp(TRUE)]
    /\ UNCHANGED <<input, consumed, output, summary, error, fault, closed>>

RegcompTestFails ==
    /\ pc = "regcomp_test"
    /\ pc' = "end"
    /\ error' = ErrorRegcomp
    /\ fault' = "regcomp_test"
    /\ pregs' = [pregs EXCEPT !.simple = Regfree(@),
                              !.test = ErrorOwns(Regcomp(FALSE))]
    /\ UNCHANGED <<input, consumed, output, summary, closed>>

RegcompTest ==
    /\ pc = "regcomp_test"
    /\ pc' = "loop"
    /\ error' = ErrorOk
    /\ pregs' = [pregs EXCEPT !.test = Regcomp(TRUE)]
    /\ UNCHANGED <<input, consumed, output, summary, fault, closed>>

(***************************************************************************)
(* Lines 299-351: the body of the line loop, for one line.                 *)
(***************************************************************************)
\* Lines 309-328: the simple_test pattern.
SimpleTest(line, s, engine) ==
    LET r == SimpleTestRegexec(line)
    IN  IF engine = "simple_regexec"
        THEN [summary |-> s, error |-> ErrorRegexec, done |-> TRUE]
        ELSE IF r.code = 0
        THEN [summary |->
                IF IsSet(r.matches[1])
                THEN [s EXCEPT !.not_ok_count = @ + 1]
                ELSE [s EXCEPT !.ok_count = @ + 1],
              error |-> ErrorOk, done |-> TRUE]
        ELSE [summary |-> s, error |-> ErrorOk, done |-> FALSE]

\* The test pattern if an empty 4th group counted as a pass.
GeneralTest_NeedsDirective(line, s, engine) ==
    LET r == TestRegexec(line)
        m == r.matches
    IN  IF engine = "test_regexec"
        THEN [summary |-> s, error |-> ErrorRegexec]
        ELSE IF r.code = 0
        THEN [summary |->
                IF /\ IsSet(m[1])
                   /\ IsSet(m[4])
                   /\ m[4].rm_eo > m[4].rm_so
                   /\ ~strcasestr(StrFrom(line, m[4].rm_so),
                                  <<"S", "K", "I", "P">>)
                   /\ ~strcasestr(StrFrom(line, m[4].rm_so),
                                  <<"T", "O", "D", "O">>)
                THEN [s EXCEPT !.not_ok_count = @ + 1]
                ELSE [s EXCEPT !.ok_count = @ + 1],
              error |-> ErrorOk]
        ELSE [summary |-> s, error |-> ErrorOk]

\* The test pattern without the test of the "not " group at line 339.
GeneralTest_IgnoresNot(line, s, engine) ==
    LET r == TestRegexec(line)
        m == r.matches
    IN  IF engine = "test_regexec"
        THEN [summary |-> s, error |-> ErrorRegexec]
        ELSE IF r.code = 0
        THEN [summary |->
                IF /\ IsSet(m[4])
                   /\ ~strcasestr(StrFrom(line, m[4].rm_so),
                                  <<"S", "K", "I", "P">>)
                   /\ ~strcasestr(StrFrom(line, m[4].rm_so),
                                  <<"T", "O", "D", "O">>)
                THEN [s EXCEPT !.not_ok_count = @ + 1]
                ELSE [s EXCEPT !.ok_count = @ + 1],
              error |-> ErrorOk]
        ELSE [summary |-> s, error |-> ErrorOk]

\* The test pattern with strstr in place of strcasestr at lines 341-342.
GeneralTest_CaseSensitive(line, s, engine) ==
    LET r == TestRegexec(line)
        m == r.matches
    IN  IF engine = "test_regexec"
        THEN [summary |-> s, error |-> ErrorRegexec]
        ELSE IF r.code = 0
        THEN [summary |->
                IF /\ IsSet(m[1])
                   /\ IsSet(m[4])
                   /\ ~strstr(StrFrom(line, m[4].rm_so), <<"S", "K", "I", "P">>)
                   /\ ~strstr(StrFrom(line, m[4].rm_so), <<"T", "O", "D", "O">>)
                THEN [s EXCEPT !.not_ok_count = @ + 1]
                ELSE [s EXCEPT !.ok_count = @ + 1],
              error |-> ErrorOk]
        ELSE [summary |-> s, error |-> ErrorOk]

\* Lines 330-351: the test pattern.
GeneralTest(line, s, engine) ==
    LET r == TestRegexec(line)
        m == r.matches
    IN  IF engine = "test_regexec"
        THEN [summary |-> s, error |-> ErrorRegexec]
        ELSE IF r.code = 0
        THEN [summary |->
                IF /\ IsSet(m[1])
                   /\ IsSet(m[4])
                   /\ ~strcasestr(StrFrom(line, m[4].rm_so),
                                  <<"S", "K", "I", "P">>)
                   /\ ~strcasestr(StrFrom(line, m[4].rm_so),
                                  <<"T", "O", "D", "O">>)
                THEN [s EXCEPT !.not_ok_count = @ + 1]
                ELSE [s EXCEPT !.ok_count = @ + 1],
              error |-> ErrorOk]
        ELSE [summary |-> s, error |-> ErrorOk]

BailOutMarker == <<"B", "a", "i", "l", " ", "o", "u", "t", "!">>

\* The iteration if a semantic failure of the plan were returned as an error.
LoopBody_ThrowsParseError(line, s, engine) ==
    LET p == kyua_tap_try_parse_plan(line, s,
                 IF engine \in {"regcomp", "regexec"} THEN engine
                 ELSE EngineOk)
        st == SimpleTest(line, p.summary, engine)
        gt == GeneralTest(line, p.summary, engine)
        r == IF p.error # ErrorOk
             THEN [summary |-> p.summary, error |-> p.error]
             ELSE IF p.summary.parse_error # NULL
             THEN [summary |-> p.summary, error |-> p.summary.parse_error]
             ELSE IF StartsWith(line, BailOutMarker)
             THEN [summary |-> [p.summary EXCEPT !.bail_out = TRUE],
                   error |-> ErrorOk]
             ELSE IF st.done
             THEN [summary |-> st.summary, error |-> st.error]
             ELSE gt
    IN  r

\* The iteration without the continue of lines 326-328: a line the simple pattern
\* has counted is also given to the general pattern.
LoopBody_CountsTwice(line, s, engine) ==
    LET p == kyua_tap_try_parse_plan(line, s,
                 IF engine \in {"regcomp", "regexec"} THEN engine
                 ELSE EngineOk)
        st == SimpleTest(line, p.summary, engine)
        gt == GeneralTest(line, p.summary, engine)
        r == IF p.error # ErrorOk
             THEN [summary |-> p.summary, error |-> p.error]
             ELSE IF StartsWith(line, BailOutMarker)
             THEN [summary |-> [p.summary EXCEPT !.bail_out = TRUE],
                   error |-> ErrorOk]
             ELSE IF st.done /\ st.error = ErrorOk
             THEN GeneralTest(line, st.summary, engine)
             ELSE IF st.done
             THEN [summary |-> st.summary, error |-> st.error]
             ELSE gt
    IN  r

LoopBody(line, s, engine) ==
    LET p == kyua_tap_try_parse_plan(line, s,
                 IF engine \in {"regcomp", "regexec"} THEN engine
                 ELSE EngineOk)
        st == SimpleTest(line, p.summary, engine)
        gt == GeneralTest(line, p.summary, engine)
        r == IF p.error # ErrorOk
             THEN [summary |-> p.summary, error |-> p.error]
             ELSE IF StartsWith(line, BailOutMarker)
             THEN [summary |-> [p.summary EXCEPT !.bail_out = TRUE],
                   error |-> ErrorOk]
             ELSE IF st.done
             THEN [summary |-> st.summary, error |-> st.error]
             ELSE gt
    IN  r

(***************************************************************************)
(* Lines 292-297: the condition of the line loop.                          *)
(***************************************************************************)
\* The condition without the test of bail_out at line 293.
Running_IgnoresBailOut ==
    /\ error = ErrorOk
    /\ summary.parse_error = NULL

Running ==
    /\ error = ErrorOk
    /\ summary.parse_error = NULL
    /\ ~summary.bail_out

\* The failure of the pattern engine that strikes kyua_tap_try_parse_plan,
\* if the one of this iteration does.
PlanEngine(engine) ==
    IF engine \in {"regcomp", "regexec"} THEN engine ELSE EngineOk

\* The pattern objects after one iteration: the plan matcher's, freed at its
\* label end (line 239), and the one a regexec failure hands to the error.
LoopPregs(engine, plan_preg) ==
    [plan |-> Regfree(plan_preg),
     simple |-> IF engine = "simple_regexec" THEN ErrorOwns(pregs.simple)
                ELSE pregs.simple,
     test |-> IF engine = "test_regexec" THEN ErrorOwns(pregs.test)
              ELSE pregs.test]

\* One iteration: a non-empty line is read, echoed and classified.  A failure
\* of the pattern engine is one of a call the iteration makes.
LoopIteration(engine) ==
    /\ pc = "loop"
    /\ Running
    /\ input # <<>>
    /\ Head(input) # <<>>
    /\ LET line == Head(input)
           r == LoopBody(line, summary, engine)
       IN  /\ engine # EngineOk => r.error # ErrorOk
           /\ fault' = IF engine = EngineOk THEN fault ELSE engine
           /\ input' = Tail(input)
           /\ consumed' = Append(consumed, line)
           /\ output' = Append(output, line)
           /\ summary' = r.summary
           /\ error' = r.error
           /\ pregs' = LoopPregs(engine,
                                 PlanPregAtEnd(PlanEngine(engine),
                                               PlanRegexec(line).code = 0))
    /\ pc' = "loop"
    /\ UNCHANGED closed

\* One iteration in which the undefined regfree of kyua_tap_try_parse_plan
\* ends the process: the line has been read and echoed and the plan matcher
\* has updated the summary.
LoopIterationCrash(engine) ==
    /\ pc = "loop"
    /\ Running
    /\ input # <<>>
    /\ Head(input) # <<>>
    /\ engine \in {EngineOk, "regcomp"}
    /\ LET line == Head(input)
           at_end == PlanPregAtEnd(engine, PlanRegexec(line).code = 0)
       IN  /\ RegfreeUndefined(at_end)
           /\ fault' = IF engine = EngineOk THEN fault ELSE engine
           /\ input' = Tail(input)
           /\ consumed' = Append(consumed, line)
           /\ output' = Append(output, line)
           /\ summary' = kyua_tap_try_parse_plan(line, summary, engine).summary
           /\ pregs' = [pregs EXCEPT !.plan = Regfree(at_end)]
    /\ pc' = "crashed"
    /\ UNCHANGED <<error, closed>>

\* The loop ends without reading: an error, a parse error or a bail out.
LoopStop ==
    /\ pc = "loop"
    /\ ~Running
    /\ pc' = "validate"
    /\ UNCHANGED <<input, consumed, output, summary, error, fault, pregs,
                   closed>>

\* The loop ends at the end of the stream.
LoopEof ==
    /\ pc = "loop"
    /\ Running
    /\ input = <<>>
    /\ pc' = "validate"
    /\ UNCHANGED <<input, consumed, output, summary, error, fault, pregs,
                   closed>>

\* The loop ends on an empty line, which has been read.
LoopEmptyLine ==
    /\ pc = "loop"
    /\ Running
    /\ input # <<>>
    /\ Head(input) = <<>>
    /\ input' = Tail(input)
    /\ consumed' = Append(consumed, Head(input))
    /\ pc' = "validate"
    /\ UNCHANGED <<output, summary, error, fault, pregs, closed>>

(***************************************************************************)
(* Lines 355-364: the checks after the loop.                               *)
(***************************************************************************)
\* The checks with an expected count of last_index - first_index.
ValidateSummary_OffByOne(s) ==
    LET exp_count == s.last_index - s.first_index
        actual_count == s.ok_count + s.not_ok_count
    IN  IF s.first_index = NoIndex
        THEN [s EXCEPT !.parse_error = ErrNoPlan]
        ELSE IF s.parse_error = NULL /\ ~s.bail_out /\ exp_count # actual_count
        THEN [s EXCEPT !.parse_error = ErrDiffers]
        ELSE s

\* The checks with the missing plan reported only when no parse error is
\* set yet.
ValidateSummary_KeepsError(s) ==
    LET exp_count == s.last_index - s.first_index + 1
        actual_count == s.ok_count + s.not_ok_count
    IN  IF s.parse_error # NULL \/ s.bail_out
        THEN s
        ELSE IF s.first_index = NoIndex
        THEN [s EXCEPT !.parse_error = ErrNoPlan]
        ELSE IF exp_count # actual_count
        THEN [s EXCEPT !.parse_error = ErrDiffers]
        ELSE s

ValidateSummary(s) ==
    LET exp_count == s.last_index - s.first_index + 1
        actual_count == s.ok_count + s.not_ok_count
    IN  IF s.first_index = NoIndex
        THEN [s EXCEPT !.parse_error = ErrNoPlan]
        ELSE IF s.parse_error = NULL /\ ~s.bail_out /\ exp_count # actual_count
        THEN [s EXCEPT !.parse_error = ErrDiffers]
        ELSE s

Validate ==
    /\ pc = "validate"
    /\ summary' = ValidateSummary(summary)
    /\ pc' = "end"
    /\ UNCHANGED <<input, consumed, output, error, fault, pregs, closed>>

(***************************************************************************)
(* Lines 366-373: the labels end and end2, and the return.                 *)
(***************************************************************************)
\* end: regfree(&simple_test_reg)
End ==
    /\ pc = "end"
    /\ pc' = "end2"
    /\ pregs' = [pregs EXCEPT !.simple = Regfree(@)]
    /\ UNCHANGED <<input, consumed, output, summary, error, fault, closed>>

\* The regfree of the label end is undefined and ends the process.
EndCrash ==
    /\ pc = "end"
    /\ RegfreeUndefined(pregs.simple)
    /\ pc' = "crashed"
    /\ pregs' = [pregs EXCEPT !.simple = Regfree(@)]
    /\ UNCHANGED <<input, consumed, output, summary, error, fault, closed>>

\* end2: regfree(&test_reg); fclose(input); return error
End2 ==
    /\ pc = "end2"
    /\ pc' = "done"
    /\ pregs' = [pregs EXCEPT !.test = Regfree(@)]
    /\ closed' = closed + 1
    /\ UNCHANGED <<input, consumed, output, summary, error, fault>>

\* The regfree of the label end2 is undefined and ends the process, before
\* the fclose.
End2Crash ==
    /\ pc = "end2"
    /\ RegfreeUndefined(pregs.test)
    /\ pc' = "crashed"
    /\ pregs' = [pregs EXCEPT !.test = Regfree(@)]
    /\ UNCHANGED <<input, consumed, output, summary, error, fault, closed>>

Next ==
    \/ FdopenFails
    \/ Fdopen
    \/ RegcompSimpleFails
    \/ RegcompSimple
    \/ RegcompTestFails
    \/ RegcompTest
    \/ \E engine \in Engines : LoopIteration(engine)
    \/ \E engine \in Engines : LoopIterationCrash(engine)
    \/ LoopStop
    \/ LoopEof
    \/ LoopEmptyLine
    \/ Validate
    \/ End
    \/ EndCrash
    \/ End2
    \/ End2Crash

Spec == Init /\ [][Next]_vars

(***************************************************************************)
(* The two entry points with the lines the limits of the plan matcher are  *)
(* about: a direct call of kyua_tap_try_parse_plan on one line and one     *)
(* summary, or a call of kyua_tap_parse on a stream of such lines.         *)
(***************************************************************************)
\* n copies of the character c.
Repeat(c, n) == [i \in 1..n |-> c]

LinePlanOver == <<"1", ".", ".">> \o Dec(LONG_MAX + 1)
LinePlanFirstOver == Dec(LONG_MAX + 1) \o <<".", ".", "1">>
LinePlanBelowMax == <<"1", ".", ".">> \o Dec(LONG_MAX - 1)
LinePlanZeros == <<"0", "1", ".", ".", "0", "2">>
LinePlanZeroMax == <<"0", ".", ".">> \o Dec(LONG_MAX)
LinePlanZeroBelowMax == <<"0", ".", ".">> \o Dec(LONG_MAX - 1)
LinePlanSkipReversed == Dec(LONG_MAX - 1)
                            \o <<".", ".", "0", " ", "#", " ", "S", "K", "I", "P">>
LinePlanTooLong == Repeat("1", NumBufSize) \o <<".", ".", "1">>
LinePlanWide == <<"1", ".", ".">> \o Repeat("9", NumBufSize - 1)
LinePlanLongDesc == <<"1", ".", ".", "1", "#">> \o Repeat("x", MaxPlanDescription)
LinePlanMaxDesc == <<"1", ".", ".", "1", "#">> \o Repeat("x", MaxPlanDescription - 1)
LinePlanSkipLower == <<"1", ".", ".", "2", " ", "#", " ", "s", "k", "i", "p">>
LinePlanLongSkip == <<"1", ".", ".", "1", "#">>
                        \o Repeat("x", MaxPlanDescription - 4)
                        \o <<"S", "K", "I", "P">>

\* Lines kyua_tap_try_parse_plan is called with.
PlanCallLines ==
    {LinePlan1, LinePlan2, LineReversed, LineSkipNone, LineSkipTwo,
     LinePlanMax, LinePlanOver, LinePlanFirstOver, LinePlanBelowMax,
     LinePlanZeros, LinePlanTooLong, LinePlanWide, LinePlanLongDesc,
     LinePlanMaxDesc, LinePlanSkipLower, LinePlanLongSkip, LinePlanZeroMax,
     LinePlanZeroBelowMax, LinePlanSkipReversed, LineOk, LineComment,
     LineEmpty}

\* Summaries kyua_tap_try_parse_plan is called with.
PlanCallSummaries ==
    {kyua_tap_summary_new,
     [kyua_tap_summary_new EXCEPT !.first_index = 1, !.last_index = 1],
     [kyua_tap_summary_new EXCEPT !.ok_count = 1],
     [kyua_tap_summary_new EXCEPT !.not_ok_count = 1],
     [kyua_tap_summary_new EXCEPT !.bail_out = TRUE],
     [kyua_tap_summary_new EXCEPT !.skipped_all = TRUE],
     [kyua_tap_summary_new EXCEPT !.first_index = 1, !.last_index = 1,
                                  !.ok_count = 1]}

\* Before a direct call of kyua_tap_try_parse_plan(line, summary).
InitPlan ==
    /\ pc = "plan_call"
    /\ \E line \in PlanCallLines : input = <<line>>
    /\ consumed = <<>>
    /\ output = <<>>
    /\ summary \in PlanCallSummaries
    /\ error = "unset"
    /\ fault = NoFault
    /\ pregs = NoPregs
    /\ closed = 0

\* kyua_tap_try_parse_plan(line, summary) runs and returns.
PlanCall(engine) ==
    /\ pc = "plan_call"
    /\ engine \in {EngineOk, "regcomp", "regexec"}
    /\ LET r == kyua_tap_try_parse_plan(Head(input), summary, engine)
       IN  /\ summary' = r.summary
           /\ error' = r.error
    /\ pregs' = [pregs EXCEPT !.plan =
                    Regfree(PlanPregAtEnd(engine,
                                          PlanRegexec(Head(input)).code = 0))]
    /\ fault' = IF engine = EngineOk THEN fault ELSE engine
    /\ input' = Tail(input)
    /\ consumed' = Append(consumed, Head(input))
    /\ pc' = "plan_return"
    /\ UNCHANGED <<output, closed>>

\* kyua_tap_try_parse_plan(line, summary) runs and its undefined regfree
\* ends the process.
PlanCallCrash(engine) ==
    /\ pc = "plan_call"
    /\ engine \in {EngineOk, "regcomp"}
    /\ LET at_end == PlanPregAtEnd(engine,
                                   PlanRegexec(Head(input)).code = 0)
       IN  /\ RegfreeUndefined(at_end)
           /\ pregs' = [pregs EXCEPT !.plan = Regfree(at_end)]
    /\ summary' = kyua_tap_try_parse_plan(Head(input), summary, engine).summary
    /\ fault' = IF engine = EngineOk THEN fault ELSE engine
    /\ input' = Tail(input)
    /\ consumed' = Append(consumed, Head(input))
    /\ pc' = "crashed"
    /\ UNCHANGED <<output, error, closed>>

\* Lines of the streams kyua_tap_parse is called with.
LinesMore ==
    {LinePlan1, LinePlanSkipReversed, LinePlanTooLong, LinePlanLongDesc, LineOk,
     LineOkSimple, LineNotOk, LineNotOkSimple, LineNotOkHash, LineNotOkTodo,
     LineComment, LineEmpty}

RECURSIVE StreamsMoreOfLen(_)
StreamsMoreOfLen(n) ==
    IF n = 0 THEN {<<>>}
    ELSE {Append(s, l) : s \in StreamsMoreOfLen(n - 1), l \in LinesMore}

StreamsMore == UNION {StreamsMoreOfLen(n) : n \in 0..MaxLines}

\* Before a call of kyua_tap_parse on one of these streams.
InitMore ==
    /\ pc = "start"
    /\ input \in StreamsMore
    /\ consumed = <<>>
    /\ output = <<>>
    /\ summary \in {kyua_tap_summary_new, StaleSummary}
    /\ error = "unset"
    /\ fault = NoFault
    /\ pregs = NoPregs
    /\ closed = 0

InitCalls == InitPlan \/ InitMore

NextCalls ==
    \/ Next
    \/ \E engine \in Engines : PlanCall(engine)
    \/ \E engine \in Engines : PlanCallCrash(engine)

SpecCalls == InitCalls /\ [][NextCalls]_vars

(***************************************************************************)
(* Vocabulary of the properties.                                           *)
(***************************************************************************)
\* The whole input stream of the run.
Stream == consumed \o input

\* kyua_tap_parse has returned.
Returned == pc = "done"

\* The checks after the loop have run (neither fdopen nor a regcomp of
\* kyua_tap_parse failed) and kyua_tap_parse has returned.
Validated == Returned /\ fault \notin {"fdopen", "regcomp_simple", "regcomp_test"}

\* The two numbers of a line that matches the plan grammar.
PlanFirst(line) == regex_match_too_long(line, PlanRegexec(line).matches[1])
PlanLast(line) == regex_match_too_long(line, PlanRegexec(line).matches[2])

\* The line matches the plan grammar.
IsPlanLine(line) == PlanRegexec(line).code = 0

\* The plan line carries a SKIP directive.
HasSkipDirective(line) ==
    LET m3 == PlanRegexec(line).matches[3]
    IN  IsSet(m3) /\ strstr(StrFrom(line, m3.rm_so), <<"S", "K", "I", "P">>)

\* A plan line with last < first and no SKIP directive.
IsReversedPlanLine(line) ==
    /\ IsPlanLine(line)
    /\ PlanFirst(line).error = NULL
    /\ PlanLast(line).error = NULL
    /\ PlanLast(line).output < PlanFirst(line).output
    /\ ~HasSkipDirective(line)

\* A plan line a fresh summary accepts: numbers in range, and not reversed
\* unless skipped.
IsAcceptablePlanLine(line) ==
    /\ IsPlanLine(line)
    /\ PlanFirst(line).error = NULL
    /\ PlanLast(line).error = NULL
    /\ (HasSkipDirective(line) \/ PlanLast(line).output >= PlanFirst(line).output)

\* The lines of s that satisfy P.
CountLines(s, P(_)) == Cardinality({i \in 1..Len(s) : P(s[i])})

(***************************************************************************)
(* C1: when the accepted plan line carried a SKIP directive (skipped_all   *)
(* is true after the line loop), the count-consistency check is bypassed:  *)
(* the run never ends with parse_error == "Reported plan differs from      *)
(* actual executed tests".                                                 *)
(***************************************************************************)
C1_SkipBypassesCountCheck ==
    (Validated /\ summary.skipped_all) => summary.parse_error # ErrDiffers

(***************************************************************************)
(* C2: a stream whose plan line has last < first and no SKIP directive     *)
(* ends with parse_error == "Test plan is reversed".                       *)
(***************************************************************************)
C2_ReversedPlanReported ==
    (/\ Validated
     /\ fault = NoFault
     /\ CountLines(consumed, IsPlanLine) = 1
     /\ CountLines(consumed, IsReversedPlanLine) = 1)
        => summary.parse_error = ErrReversed

(***************************************************************************)
(* C3: parse_error is sticky: once a step of a run has set it, no later    *)
(* step of the run changes it; the checks after the loop never override    *)
(* it.                                                                     *)
(***************************************************************************)
C3_ParseErrorSticky ==
    [][(pc # "start" /\ summary.parse_error # NULL)
          => summary'.parse_error = summary.parse_error]_vars

(***************************************************************************)
(* C4: the lines written to the output are, verbatim and in order, the     *)
(* lines consumed from the input, an empty line included: none is skipped  *)
(* and none is duplicated.                                                 *)
(***************************************************************************)
C4_EchoEqualsConsumed == output = consumed

(***************************************************************************)
(* C5: a stream made of the plan line "1..N", N >= 1, and exactly N        *)
(* passing result lines ends with ok_count == N, not_ok_count == 0 and     *)
(* parse_error unset, and kyua_tap_parse returns success.                  *)
(***************************************************************************)
\* A result line without the "not " marker.
IsPassingLine(line) == OkEnd(line) = 2

\* The plan line "1..N".
PlanOneTo(n) == <<"1", ".", ".">> \o Dec(n)

IsValidPassingStream(s) ==
    /\ Len(s) >= 2
    /\ \E k \in 1..Len(s) :
        /\ s[k] = PlanOneTo(Len(s) - 1)
        /\ \A i \in 1..Len(s) : i # k => IsPassingLine(s[i])

C5_ValidStreamCounts ==
    (Returned /\ fault = NoFault /\ IsValidPassingStream(Stream))
        => /\ error = ErrorOk
           /\ summary.ok_count = Len(Stream) - 1
           /\ summary.not_ok_count = 0
           /\ summary.parse_error = NULL

C5_Witness ==
    /\ Returned
    /\ fault = NoFault
    /\ IsValidPassingStream(Stream)
    /\ summary.ok_count = 2

(***************************************************************************)
(* C6: when the line loop ends with a plan accepted, no parse_error,       *)
(* bail_out false and skipped_all false, the checks after the loop set     *)
(* parse_error to "Reported plan differs from actual executed tests" if    *)
(* and only if last_index - first_index + 1 # ok_count + not_ok_count,     *)
(* and leave it unset otherwise.                                           *)
(***************************************************************************)
ExpectedCount == summary.last_index - summary.first_index + 1
ActualCount == summary.ok_count + summary.not_ok_count

C6_CountCheck ==
    [][(/\ pc = "validate"
        /\ summary.first_index # NoIndex
        /\ summary.parse_error = NULL
        /\ ~summary.bail_out
        /\ ~summary.skipped_all)
          => summary'.parse_error =
                IF ExpectedCount # ActualCount THEN ErrDiffers ELSE NULL]_vars

C6_Witness ==
    /\ Validated
    /\ summary.first_index # NoIndex
    /\ ~summary.bail_out
    /\ ~summary.skipped_all
    /\ ExpectedCount # ActualCount
    /\ summary.parse_error = ErrDiffers

(***************************************************************************)
(* C7: at most one plan is accepted per run: once first_index and          *)
(* last_index are committed no later line changes them, and a later line   *)
(* that matches the plan grammar sets parse_error to "Output includes two  *)
(* test plans".                                                            *)
(***************************************************************************)
C7_OnePlanPerRun ==
    [][(pc # "start" /\ summary.first_index # NoIndex)
          => /\ summary'.first_index = summary.first_index
             /\ summary'.last_index = summary.last_index
             /\ (/\ Len(consumed') = Len(consumed) + 1
                 /\ IsPlanLine(consumed'[Len(consumed')])
                 /\ fault' \notin {"regcomp", "regexec"})
                    => summary'.parse_error = ErrTwoPlans]_vars

C7_Witness ==
    /\ Validated
    /\ summary.first_index # NoIndex
    /\ CountLines(consumed, IsPlanLine) = 2
    /\ summary.parse_error = ErrTwoPlans

(***************************************************************************)
(* C8: stop conditions halt the line loop: once bail_out or parse_error is *)
(* set, no further line is consumed, echoed or classified and the counters *)
(* do not change; after a bail-out with a plan accepted no                 *)
(* count-consistency error is recorded, even if the counts differ.         *)
(***************************************************************************)
C8_StopConditionsHalt ==
    /\ [][(pc # "start" /\ (summary.bail_out \/ summary.parse_error # NULL))
            => /\ input' = input
               /\ consumed' = consumed
               /\ output' = output
               /\ summary'.ok_count = summary.ok_count
               /\ summary'.not_ok_count = summary.not_ok_count]_vars
    /\ []((Validated /\ summary.bail_out /\ summary.first_index # NoIndex)
            => summary.parse_error # ErrDiffers)

C8_Witness ==
    /\ Validated
    /\ summary.bail_out
    /\ summary.first_index # NoIndex
    /\ ExpectedCount # ActualCount
    /\ input # <<>>
    /\ summary.parse_error = NULL

(***************************************************************************)
(* C9: a result line that starts with "not ok" and carries a '#' directive *)
(* containing TODO or SKIP in any letter case is counted in ok_count and   *)
(* not in not_ok_count; "1..1" followed by such a line ends with           *)
(* ok_count == 1, not_ok_count == 0 and no parse_error.                    *)
(***************************************************************************)
IsNotOkLine(line) == StartsWith(line, <<"n", "o", "t", " ", "o", "k">>)

HasTodoOrSkipDirective(line) ==
    \E i \in 1..Len(line) :
        /\ line[i] = "#"
        /\ \/ strcasestr(SubSeq(line, i, Len(line)), <<"T", "O", "D", "O">>)
           \/ strcasestr(SubSeq(line, i, Len(line)), <<"S", "K", "I", "P">>)

C9_TodoSkipCountAsOk ==
    /\ [][(/\ Len(consumed') = Len(consumed) + 1
           /\ fault' = NoFault
           /\ IsNotOkLine(consumed'[Len(consumed')])
           /\ HasTodoOrSkipDirective(consumed'[Len(consumed')]))
            => /\ summary'.ok_count = summary.ok_count + 1
               /\ summary'.not_ok_count = summary.not_ok_count]_vars
    /\ []((/\ Returned
           /\ fault = NoFault
           /\ Len(Stream) = 2
           /\ Stream[1] = LinePlan1
           /\ IsNotOkLine(Stream[2])
           /\ HasTodoOrSkipDirective(Stream[2]))
            => /\ summary.ok_count = 1
               /\ summary.not_ok_count = 0
               /\ summary.parse_error = NULL)

C9_Witness ==
    /\ Returned
    /\ fault = NoFault
    /\ Stream = <<LinePlan1, LineNotOkTodo>>
    /\ summary.ok_count = 1

(***************************************************************************)
(* C10: a run in which no plan line is ever accepted (empty stream, only   *)
(* results, bail-out before any plan, only rejected plan lines) ends with  *)
(* first_index == -1 and parse_error == "No plan found in TAP output".     *)
(***************************************************************************)
\* No consumed line is a plan the plan matcher accepts; the pattern engine
\* may have failed on the last line, before matching it.
NoPlanAccepted ==
    \A i \in 1..Len(consumed) :
        \/ ~IsAcceptablePlanLine(consumed[i])
        \/ i = Len(consumed) /\ fault \in {"regcomp", "regexec"}

C10_NoPlanFound ==
    (Validated /\ NoPlanAccepted)
        => /\ summary.first_index = NoIndex
           /\ summary.parse_error = ErrNoPlan

C10_Witness ==
    /\ Validated
    /\ fault = NoFault
    /\ NoPlanAccepted
    /\ CountLines(consumed, IsPlanLine) = 1
    /\ summary.first_index = NoIndex
    /\ summary.parse_error = ErrNoPlan

\* The description a plan line carries is longer than the matcher accepts.
HasLongDescription(line) ==
    LET m3 == PlanRegexec(line).matches[3]
    IN  IsSet(m3) /\ m3.rm_eo - m3.rm_so > MaxPlanDescription

\* The cases in which a plan line is semantically invalid for the summary s:
\* duplicate plan, bad number, over-long description, skip after results or
\* bail-out, reversed range.
IsSemanticFailure(line, s) ==
    /\ IsPlanLine(line)
    /\ \/ s.first_index # NoIndex
       \/ PlanFirst(line).error # NULL
       \/ PlanLast(line).error # NULL
       \/ HasLongDescription(line)
       \/ /\ HasSkipDirective(line)
          /\ (s.ok_count > 0 \/ s.not_ok_count > 0 \/ s.bail_out)
       \/ IsReversedPlanLine(line)

RECURSIVE StripZeros(_)
StripZeros(digits) ==
    IF Len(digits) > 1 /\ Head(digits) = "0" THEN StripZeros(Tail(digits))
    ELSE digits

\* a > b for two strings of digits of the same length.
RECURSIVE DigitsGreater(_, _)
DigitsGreater(a, b) ==
    IF a = <<>> THEN FALSE
    ELSE IF Head(a) # Head(b) THEN DigitVal(Head(a)) > DigitVal(Head(b))
    ELSE DigitsGreater(Tail(a), Tail(b))

\* The decimal value the digits write is greater than max.
DecimalExceeds(digits, max) ==
    LET d == StripZeros(digits)
        m == Dec(max)
    IN  Len(d) > Len(m) \/ (Len(d) = Len(m) /\ DigitsGreater(d, m))

\* The digits of the two numbers of a plan line, as written.
FirstDigits(line) ==
    LET m == PlanRegexec(line).matches[1] IN SubSeq(line, m.rm_so + 1, m.rm_eo)
LastDigits(line) ==
    LET m == PlanRegexec(line).matches[2] IN SubSeq(line, m.rm_so + 1, m.rm_eo)

\* A number of the plan line exceeds the range of a long or is longer than
\* the number buffer holds.
HasUnstorableNumber(line) ==
    /\ IsPlanLine(line)
    /\ \/ DecimalExceeds(FirstDigits(line), LONG_MAX)
       \/ DecimalExceeds(LastDigits(line), LONG_MAX)
       \/ Len(FirstDigits(line)) > NumBufSize - 1
       \/ Len(LastDigits(line)) > NumBufSize - 1

\* A step in which the plan matcher processes the next line and returns.
PlanMatcherStep ==
    /\ pc \in {"plan_call", "loop"}
    /\ pc' \in {"plan_return", "loop"}
    /\ input # <<>>
    /\ consumed' = Append(consumed, Head(input))
    /\ Head(input) # <<>>

\* C12: no wrapped plan value is ever stored.  A plan line with a number out
\* of the range of a long, or longer than 63 digits, leaves first_index and
\* last_index unchanged and ends the run with an error; indices that are
\* committed equal the decimal values written on the line.
C12_NoWrappedPlanValue ==
    /\ [][(PlanMatcherStep /\ HasUnstorableNumber(Head(input)))
          => /\ summary'.first_index = summary.first_index
             /\ summary'.last_index = summary.last_index
             /\ (summary'.parse_error # NULL \/ error' # ErrorOk)]_vars
    /\ [][(PlanMatcherStep /\ IsPlanLine(Head(input))
           /\ (summary'.first_index # summary.first_index
               \/ summary'.last_index # summary.last_index))
          => /\ Dec(summary'.first_index) = StripZeros(FirstDigits(Head(input)))
             /\ Dec(summary'.last_index) = StripZeros(LastDigits(Head(input)))]_vars
    /\ []((Validated /\ \E i \in 1..Len(consumed) :
                            HasUnstorableNumber(consumed[i]))
          => (summary.parse_error # NULL \/ error # ErrorOk))

C12_Witness ==
    /\ pc = "plan_return"
    /\ consumed = <<LinePlanOver>>
    /\ summary.parse_error = ErrOutOfRange
    /\ summary.first_index = NoIndex
    /\ summary.last_index = NoIndex

\* Results or a bail-out have been recorded in the summary s.
HasActivity(s) == s.ok_count > 0 \/ s.not_ok_count > 0 \/ s.bail_out

\* What C13 says of a plan line with a SKIP directive.
SkipOutcome ==
    IF HasActivity(summary)
    THEN summary'.parse_error = ErrNoPlan /\ summary'.skipped_all
    ELSE summary'.skipped_all /\ summary'.parse_error = summary.parse_error

\* C13 as stated: every matched plan line that carries SKIP sets skipped_all,
\* and sets parse_error to "No plan found in TAP output" exactly when results
\* or a bail-out were recorded before.
C13_SkipAfterActivity ==
    [][(PlanMatcherStep /\ fault' = fault
        /\ IsPlanLine(Head(input)) /\ HasSkipDirective(Head(input)))
       => SkipOutcome]_vars

\* C13, amended: the same, for a plan line that reaches the SKIP test: no
\* plan was accepted before, both numbers pass the number check and the
\* trailing text is at most 1024 characters long.
C13_SkipAfterActivityReached ==
    [][(PlanMatcherStep /\ fault' = fault
        /\ IsPlanLine(Head(input)) /\ HasSkipDirective(Head(input))
        /\ summary.first_index = NoIndex
        /\ PlanFirst(Head(input)).error = NULL
        /\ PlanLast(Head(input)).error = NULL
        /\ ~HasLongDescription(Head(input)))
       => SkipOutcome]_vars

C13_Witness ==
    /\ pc = "plan_return"
    /\ consumed = <<LineSkipTwo>>
    /\ summary.bail_out
    /\ summary.parse_error = ErrNoPlan
    /\ summary.skipped_all

\* The line matches none of the plan, bail-out and result grammars.
IsInertLine(line) ==
    /\ ~IsPlanLine(line)
    /\ ~StartsWith(line, BailOutMarker)
    /\ SimpleTestRegexec(line).code # 0
    /\ TestRegexec(line).code # 0

\* C14: the line loop ends only at end-of-stream or in a stopped state, and a
\* line that matches no grammar (a comment or an empty line) leaves the
\* summary unchanged and the loop reading.
C14_InertLinesKeepLoopRunning ==
    /\ [][(pc = "loop" /\ pc' = "validate") => (input = <<>> \/ ~Running)]_vars
    /\ [][(pc = "loop" /\ Running /\ input # <<>> /\ fault' = fault
           /\ IsInertLine(Head(input)))
          => (summary' = summary /\ pc' = "loop")]_vars

\* The line matches the simple or the general result grammar.
IsResultLine(line) ==
    SimpleTestRegexec(line).code = 0 \/ TestRegexec(line).code = 0

\* A step of the line loop that reads a line, with no failure of the pattern
\* engine.
LineStep ==
    /\ pc = "loop"
    /\ input # <<>>
    /\ consumed' = Append(consumed, Head(input))
    /\ fault' = fault

\* C15: processing one line adds exactly 1 to ok_count + not_ok_count when
\* the line matches a result grammar and 0 otherwise, never adds to both
\* counters and never decreases one; so the sum is the number of result lines
\* read so far.
C15_CounterInvariant ==
    /\ [][LineStep
          => LET d_ok == summary'.ok_count - summary.ok_count
                 d_not_ok == summary'.not_ok_count - summary.not_ok_count
             IN  /\ d_ok \in {0, 1}
                 /\ d_not_ok \in {0, 1}
                 /\ d_ok + d_not_ok
                        = IF IsResultLine(Head(input)) THEN 1 ELSE 0]_vars
    /\ [][pc \notin {"start", "plan_call"}
          => /\ summary'.ok_count >= summary.ok_count
             /\ summary'.not_ok_count >= summary.not_ok_count]_vars
    /\ []((pc \in {"loop", "validate", "end", "end2", "done"}
           /\ fault = NoFault)
          => summary.ok_count + summary.not_ok_count
                 = CountLines(consumed, IsResultLine))

C15_Witness ==
    /\ Returned
    /\ fault = NoFault
    /\ consumed = <<LineComment, LineOkSimple, LineNotOkSimple>>
    /\ summary.ok_count = 1
    /\ summary.not_ok_count = 1

\* A step of the line loop that gives the line to the general pattern only:
\* the simple pattern does not match it and the general pattern does.
GeneralStep ==
    /\ LineStep
    /\ ~IsPlanLine(Head(input))
    /\ ~StartsWith(Head(input), BailOutMarker)
    /\ SimpleTestRegexec(Head(input)).code # 0
    /\ TestRegexec(Head(input)).code = 0

\* The text the 4th group of the general pattern captures: from the first
\* '#' to the end of the line, empty when the line has no '#'.
TrailingCapture(line) ==
    IF \E i \in 1..Len(line) : line[i] = "#"
    THEN SubSeq(line, CHOOSE i \in 1..Len(line) :
                          /\ line[i] = "#"
                          /\ \A j \in 1..(i - 1) : line[j] # "#",
                Len(line))
    ELSE <<>>

\* The trailing capture contains neither SKIP nor TODO, in any case.
NoSkipNorTodo(line) ==
    /\ ~strcasestr(TrailingCapture(line), <<"S", "K", "I", "P">>)
    /\ ~strcasestr(TrailingCapture(line), <<"T", "O", "D", "O">>)

PatternNames == {"plan", "simple", "test"}

\* C17: on every exit path each compiled pattern object is released exactly
\* once, counting the release by an error object that owns it; no pattern is
\* released twice and no pattern that was never compiled is released.
C17_PatternsReleasedOnce ==
    /\ \A k \in PatternNames :
          /\ Releases(pregs[k]) <= 1
          /\ (Releases(pregs[k]) >= 1 => pregs[k].compiled)
    /\ (pc \in {"done", "plan_return"}
            => \A k \in PatternNames :
                  pregs[k].compiled => Releases(pregs[k]) = 1)

C19_PlanLineFrame ==
    [][(pc = "loop" /\ input # <<>>
        /\ consumed' = Append(consumed, Head(input))
        /\ IsPlanLine(Head(input)))
       => /\ summary'.ok_count = summary.ok_count
          /\ summary'.not_ok_count = summary.not_ok_count
          /\ summary'.bail_out = summary.bail_out]_vars

C19_Witness ==
    /\ Returned
    /\ fault = NoFault
    /\ consumed = <<LineOk, LinePlan1, LinePlanTooLong>>
    /\ summary.first_index = 1
    /\ summary.parse_error = ErrTwoPlans
    /\ summary.ok_count = 1
    /\ summary.not_ok_count = 0
    /\ ~summary.bail_out

\* C20: a plan number is rejected with "Plan line includes out of range
\* numbers" if and only if its decimal value is greater than LONG_MAX; values
\* up to and including LONG_MAX are accepted.
C20_RangeAccepted ==
    [][(/\ pc = "plan_call" /\ pc' = "plan_return" /\ fault' = fault
        /\ IsPlanLine(Head(input))
        /\ summary.first_index = NoIndex
        /\ Len(FirstDigits(Head(input))) <= NumBufSize - 1
        /\ Len(LastDigits(Head(input))) <= NumBufSize - 1)
       => (summary'.parse_error = ErrOutOfRange
             <=> \/ DecimalExceeds(FirstDigits(Head(input)), LONG_MAX)
                 \/ DecimalExceeds(LastDigits(Head(input)), LONG_MAX))]_vars

\* The value fits a long.
InLongRange(n) == -LONG_MAX - 1 <= n /\ n <= LONG_MAX

\* C21: for every pair first_index/last_index the plan matcher commits, a
\* reversed pair committed under SKIP included, the difference
\* last_index - first_index and the expected count last_index - first_index
\* + 1 of the checks after the loop fit a long.
C21_ExpectedCountInRange ==
    summary.first_index # NoIndex
        => /\ InLongRange(summary.last_index - summary.first_index)
           /\ InLongRange(ExpectedCount)

C21_Witness ==
    /\ Validated
    /\ fault = NoFault
    /\ consumed = <<LinePlanSkipReversed>>
    /\ summary.skipped_all
    /\ summary.first_index = LONG_MAX - 1
    /\ summary.last_index = 0
    /\ ExpectedCount = 2 - LONG_MAX
    /\ summary.parse_error = ErrDiffers

====
